---- MODULE Spec2Model ----
(***************************************************************************)
(* Model of src/run.py: the inflation-factor curve, the deflation of a     *)
(* price history and the pairwise correlation matrix.                      *)
(*                                                                         *)
(* Numbers.  Prices entering a correlation are exact rationals <<n, d>>.   *)
(* A cumulative inflation factor is the bag of the daily factors that were *)
(* multiplied into it: the daily factor (1 + rate/100) ** (1/days) is the  *)
(* pair <<rate, days>>, 1.0 is the empty bag and `*=` is bag union.        *)
(* A date is <<year, day of year>>.                                        *)
(***************************************************************************)
EXTENDS Integers, Sequences, FiniteSets, Bags, TLC

VARIABLES
    pc,                   \* position in calculate_pairwise_correlation
    frequency,            \* its argument frequency
    inflation_data,       \* its argument inflation_data (None or a rate table)
    todo,                 \* tickers the first loop has still to visit, in order
    fetched,              \* label -> what get_asset_stats returned for it
    history,              \* label -> history after the optional adjustment
    date_sets,            \* run.py:207
    closing_prices,       \* run.py:206
    pairwise_correlation, \* run.py:235, None until the call returns
    frames,               \* <<label1, label2>> -> the DataFrame of run.py:250
    error,                \* the exception that left the call, or None
    ipc,                  \* position in the deflation run
    table,                \* precompute_inflation_factors: inflation_data
    start_date,           \* precompute_inflation_factors: start_date
    inflation_factors,    \* the returned curve, None if none was returned
    raised,               \* the exception of precompute_inflation_factors
    asset_data_in,        \* adjust_for_inflation: asset_data before the call
    asset_data,           \* the same list after the call
    adjusted_data         \* the list adjust_for_inflation returned

vars == <<pc, frequency, inflation_data, todo, fetched, history, date_sets,
          closing_prices, pairwise_correlation, frames, error, ipc, table,
          start_date, inflation_factors, raised, asset_data_in, asset_data,
          adjusted_data>>

corrVars == <<pc, frequency, inflation_data, todo, fetched, history,
              date_sets, closing_prices, pairwise_correlation, frames, error>>

inflVars == <<ipc, table, start_date, inflation_factors, raised,
              asset_data_in, asset_data, adjusted_data>>

\* Python's None, and a value x where None is possible too
None == [none |-> TRUE]
Some(x) == [none |-> FALSE, value |-> x]

\* the float NaN
NaN == [nan |-> TRUE]

(***************************************************************************)
(* Program constants and the bounds of the model.                          *)
(***************************************************************************)
END_DATE == 2024

\* closes are drawn from 1..MaxClose
MaxClose == 2

\* the tickers of the checked calls: two entries of the program's map
ticker_label_map ==
    [t \in {"^GSPC", "BTC-USD"} |-> IF t = "^GSPC" THEN "S&P 500" ELSE "Bitcoin"]

\* dict order of ticker_label_map
TickerOrder == <<"^GSPC", "BTC-USD">>

\* the days on which a history may have a record: Sat 2022-12-31,
\* Sun 2023-01-01, Mon 2023-01-02 (a year boundary, then a week boundary)
CandidateDates == {<<2022, 365>>, <<2023, 1>>, <<2023, 2>>}

\* years a rate table may list, and the rates (percent) it may give them
TableYears == 2022..2025
Rates == {0, 3}

\* the turns of a century a rate table may cover instead: 1900, which the
\* 100 rule makes a common year, and 2000, which the 400 rule makes a leap
\* year, each with the year before and the year after
CenturySpans == {1899..1901, 1999..2001}

\* the start dates of the curves over those years: the last day of the year
\* before the turn, and the first day of 2000
CenturyStartDates == {<<1899, 365>>, <<1999, 365>>, <<2000, 1>>}

\* the frequencies of the checked calls: those main passes, and weekly
Frequencies == {"D", "W", "Y"}

(***************************************************************************)
(* Calendar.                                                               *)
(***************************************************************************)
\* a mutant: every fourth year is a leap year, as in the Julian calendar
days_in_year_julian(year) ==
    IF year % 4 = 0 THEN 366 ELSE 365

\* run.py:136-137
days_in_year(year) ==
    IF year % 4 = 0 /\ (year % 100 # 0 \/ year % 400 = 0) THEN 366 ELSE 365

DateLE(a, b) == a[1] < b[1] \/ (a[1] = b[1] /\ a[2] <= b[2])

\* datetime.fromisoformat(record["timestamp"]).date(): the time of day and
\* the offset of the timestamp are dropped
DateOf(timestamp) == <<timestamp[1], timestamp[2]>>

\* proleptic Gregorian ordinal (date.toordinal): 0001-01-01 is day 1, a Monday
Ordinal(date) ==
    LET y == date[1] - 1
    IN  365 * y + (y \div 4) - (y \div 100) + (y \div 400) + date[2]

\* the bin df.resample(frequency) puts a date in: the day, the week ending
\* on Sunday, the calendar year
Period(date, freq) ==
    CASE freq = "D" -> <<"D", Ordinal(date)>>
      [] freq = "W" -> <<"W", (Ordinal(date) + 6) \div 7>>
      [] freq = "Y" -> <<"Y", date[1]>>

(***************************************************************************)
(* Exact rational arithmetic.                                              *)
(***************************************************************************)
Abs(n) == IF n < 0 THEN -n ELSE n

RECURSIVE GCD(_, _)
GCD(a, b) == IF b = 0 THEN a ELSE GCD(b, a % b)

Rat(n, d) ==
    LET g == GCD(Abs(n), Abs(d))
        s == IF d < 0 THEN -1 ELSE 1
    IN  <<(s * n) \div g, (s * d) \div g>>

RAdd(a, b) == Rat(a[1] * b[2] + b[1] * a[2], a[2] * b[2])
RSub(a, b) == Rat(a[1] * b[2] - b[1] * a[2], a[2] * b[2])
RMul(a, b) == Rat(a[1] * b[1], a[2] * b[2])
RDiv(a, b) == Rat(a[1] * b[2], a[2] * b[1])
Sign(a) == IF a[1] > 0 THEN 1 ELSE IF a[1] < 0 THEN -1 ELSE 0

RECURSIVE RSum(_, _)
\* the sum of f[x] over x in S
RSum(f, S) ==
    IF S = {} THEN <<0, 1>>
    ELSE LET x == CHOOSE x \in S : TRUE
         IN  RAdd(f[x], RSum(f, S \ {x}))

(***************************************************************************)
(* Floats of the program.  Float(c) is the close c as fetched; Divide is   *)
(* the division of run.py:180 by a cumulative factor.                      *)
(***************************************************************************)
Float(c) == [num |-> c, over |-> EmptyBag]

Divide(x, factor) == [num |-> x.num, over |-> x.over (+) factor]

One == [nan |-> FALSE, sgn |-> 1, sq |-> <<1, 1>>]
Zero == [nan |-> FALSE, sgn |-> 0, sq |-> <<0, 1>>]

\* the rational a float stands for.  A daily factor of rate 0 is
\* (1 + 0) ** (1/days) = 1.0, so a float over such factors is its numerator;
\* a float over any other factor is irrational and has no value here.
Value(x) ==
    IF \A f \in BagToSet(x.over) : f[1] = 0
    THEN <<x.num, 1>>
    ELSE CHOOSE r \in {} : TRUE

(***************************************************************************)
(* df.resample(frequency).mean() and df.corr().iloc[0, 1], run.py:256-259. *)
(* A frame maps each row key to the pair of its two column entries.        *)
(***************************************************************************)
Resample(df, freq) ==
    LET bins == {Period(d, freq) : d \in DOMAIN df}
        In(b) == {d \in DOMAIN df : Period(d, freq) = b}
        col(k) == [d \in DOMAIN df |-> Value(df[d][k])]
        mean(k, b) == RDiv(RSum(col(k), In(b)), <<Cardinality(In(b)), 1>>)
    IN  [b \in bins |-> <<mean(1, b), mean(2, b)>>]

\* a mutant: the covariance over the variance of the first column alone
CorrBySlope(df) ==
    LET rows == DOMAIN df
        n == <<Cardinality(rows), 1>>
        x == [r \in rows |-> df[r][1]]
        y == [r \in rows |-> df[r][2]]
        mx == RDiv(RSum(x, rows), n)
        my == RDiv(RSum(y, rows), n)
        dx == [r \in rows |-> RSub(x[r], mx)]
        dy == [r \in rows |-> RSub(y[r], my)]
        ssx == RSum([r \in rows |-> RMul(dx[r], dx[r])], rows)
        ssy == RSum([r \in rows |-> RMul(dy[r], dy[r])], rows)
        cov == RSum([r \in rows |-> RMul(dx[r], dy[r])], rows)
    IN  IF RMul(ssx, ssy)[1] = 0 THEN NaN
        ELSE [nan |-> FALSE, sgn |-> Sign(cov), sq |-> RDiv(RMul(cov, cov), RMul(ssx, ssx))]

\* Pearson's coefficient of the two columns over the rows where both have a
\* value: cov / sqrt(ssx * ssy), NaN when that divisor is 0.  The coefficient
\* is held as its sign and its square.
Corr(df) ==
    LET rows == DOMAIN df
        n == <<Cardinality(rows), 1>>
        x == [r \in rows |-> df[r][1]]
        y == [r \in rows |-> df[r][2]]
        mx == RDiv(RSum(x, rows), n)
        my == RDiv(RSum(y, rows), n)
        dx == [r \in rows |-> RSub(x[r], mx)]
        dy == [r \in rows |-> RSub(y[r], my)]
        ssx == RSum([r \in rows |-> RMul(dx[r], dx[r])], rows)
        ssy == RSum([r \in rows |-> RMul(dy[r], dy[r])], rows)
        cov == RSum([r \in rows |-> RMul(dx[r], dy[r])], rows)
    IN  IF RMul(ssx, ssy)[1] = 0 THEN NaN
        ELSE [nan |-> FALSE, sgn |-> Sign(cov), sq |-> RDiv(RMul(cov, cov), RMul(ssx, ssy))]

(***************************************************************************)
(* get_asset_stats, run.py:18-83.                                          *)
(***************************************************************************)
\* the days a cache file or the provider may hold a row for
SourceDates == CandidateDates \cup {<<END_DATE + 1, 1>>}

Record(date, c) ==
    [timestamp |-> <<date[1], date[2], "00:00:00-05:00">>,
     data |-> [Close |-> Float(c)]]

\* the rows of dates D in date order, with the closes c gives them
Rows(D, c) ==
    LET n == Cardinality(D)
        order == CHOOSE s \in [1..n -> D] :
                     \A i, j \in 1..n : i < j => (s[i] # s[j] /\ DateLE(s[i], s[j]))
    IN  [i \in 1..n |-> Record(order[i], c[order[i]])]

Histories(dates) ==
    UNION {{Rows(D, c) : c \in [D -> 1..MaxClose]} : D \in SUBSET dates}

\* what a call of get_asset_stats finds: the cache file, the provider's
\* answer, and the rows of whichever of the two is read.  A valid cache file
\* holds any history over the candidate dates; the provider answers with
\* rows of the last candidate date and of a date after END_DATE.
Sources ==
    [cache : {"valid"}, remote : {"error"}, rows : Histories(CandidateDates)]
    \cup [cache : {"absent", "corrupt"}, remote : {"error", "non_usd", "empty"},
          rows : {<<>>}]
    \cup [cache : {"absent", "corrupt"}, remote : {"ok"},
          rows : Histories(SourceDates \ {<<2022, 365>>, <<2023, 1>>})]

UpToEndDate(rows) ==
    SelectSeq(rows, LAMBDA record :
        DateLE(DateOf(record.timestamp), <<END_DATE, days_in_year(END_DATE)>>))

get_asset_stats(source) ==
    IF source.cache = "valid" THEN Some(UpToEndDate(source.rows))
    ELSE IF source.remote \in {"error", "non_usd"} THEN None
    ELSE IF source.remote = "empty" \/ source.rows = <<>> THEN None
    ELSE Some(UpToEndDate(source.rows))

\* `if history:` of run.py:212
Truthy(h) == h # None /\ h.value # <<>>

(***************************************************************************)
(* precompute_inflation_factors, run.py:118-155.  A rate table maps the    *)
(* years it lists to their rate in percent.                                *)
(***************************************************************************)
Min(a, b) == IF b < a THEN b ELSE a

MaxOf(S) == CHOOSE m \in S : \A x \in S : x <= m
MinOf(S) == CHOOSE m \in S : \A x \in S : m <= x

Copies(e, n) == IF n <= 0 THEN EmptyBag ELSE (e :> n)

\* run.py:142-144
daily_inflation_factor(rates, year) == <<rates[year], days_in_year(year)>>

\* the last year the loop of run.py:140 visits; the maximum of an empty
\* index is NaT, whose year is nan, and min(END_DATE, nan) is END_DATE
LastYear(rates) ==
    IF DOMAIN rates = {} THEN END_DATE ELSE Min(END_DATE, MaxOf(DOMAIN rates))

\* a mutant: the factor is recorded before it is multiplied
StepsStoredFirst(year, start, day) ==
    IF year = start[1] THEN day - start[2] ELSE day - 1

\* run.py:147-151: how often the loop over the days of `year` has multiplied
\* cumulative_factor by the daily factor when it records the factor of `day`
\* (once for each day from the first one that is >= start through `day`)
StepsBy(year, start, day) ==
    IF year = start[1] THEN day - start[2] + 1 ELSE day

RECURSIVE CarriedInto(_, _, _)
\* cumulative_factor when the loop over the years enters `year`
CarriedInto(rates, start, year) ==
    IF year <= start[1] THEN EmptyBag
    ELSE CarriedInto(rates, start, year - 1)
            (+) Copies(daily_inflation_factor(rates, year - 1),
                       StepsBy(year - 1, start, days_in_year(year - 1)))

\* a mutant: the range of years runs to END_DATE whatever the table lists
YearsToEndDate(rates, start) == start[1]..END_DATE

\* run.py:140
YearsVisited(rates, start) == start[1]..LastYear(rates)

\* run.py:141,152-153: the years at which the loop raises
MissingYears(rates, start) ==
    {year \in YearsVisited(rates, start) : year \notin DOMAIN rates}

precompute_inflation_factors(rates, start) ==
    IF MissingYears(rates, start) # {}
    THEN [raised |-> Some(<<"ValueError", "year not found",
                            MinOf(MissingYears(rates, start))>>),
          cumulative_factors |-> <<>>]
    ELSE [raised |-> None,
          cumulative_factors |->
            [date \in {dt \in YearsVisited(rates, start) \X (1..366) :
                          /\ dt[2] <= days_in_year(dt[1])
                          /\ DateLE(start, dt)} |->
                CarriedInto(rates, start, date[1])
                   (+) Copies(daily_inflation_factor(rates, date[1]),
                              StepsBy(date[1], start, date[2]))]]

(***************************************************************************)
(* adjust_for_inflation, run.py:157-190.  The call returns a list and may  *)
(* write into the records of the list it was given.                        *)
(***************************************************************************)
AdjustedKey == "Inflation Adjusted Close"

\* run.py:180-181 on one record
WithAdjustedClose(record, factors) ==
    [record EXCEPT !.data =
        [k \in DOMAIN record.data \cup {AdjustedKey} |->
            IF k = AdjustedKey
            THEN Divide(record.data.Close, factors[DateOf(record.timestamp)])
            ELSE record.data[k]]]

adjust_for_inflation(data, factors) ==
    IF ~(\E date \in DOMAIN factors : TRUE)
    THEN [asset_data |-> data, returned |-> data]
    ELSE LET written == [i \in 1..Len(data) |->
                            IF DateOf(data[i].timestamp) \in DOMAIN factors
                            THEN WithAdjustedClose(data[i], factors)
                            ELSE data[i]]
         IN  [asset_data |-> written,
              returned |-> SelectSeq(written, LAMBDA record :
                              DateOf(record.timestamp) \in DOMAIN factors)]

(***************************************************************************)
(* calculate_pairwise_correlation, run.py:193-264.                         *)
(***************************************************************************)
labels == [i \in 1..Len(TickerOrder) |-> ticker_label_map[TickerOrder[i]]]

LabelSet == {labels[i] : i \in 1..Len(labels)}

Dates(h) == {DateOf(h[i].timestamp) : i \in 1..Len(h)}

\* run.py:214
EarliestDate(h) == CHOOSE d \in Dates(h) : \A e \in Dates(h) : DateLE(d, e)

\* run.py:228: record["data"].get("Inflation Adjusted Close", record["data"]["Close"])
PriceOf(record) ==
    IF AdjustedKey \in DOMAIN record.data
    THEN record.data[AdjustedKey]
    ELSE record.data.Close

\* run.py:226-231: a dict comprehension, a later record of a date wins
PricesByDate(h) ==
    [d \in Dates(h) |->
        PriceOf(h[MaxOf({i \in 1..Len(h) : DateOf(h[i].timestamp) = d})])]

\* a mutant: the earliest common date is lost
CommonDatesButFirst(dates1, dates2) ==
    LET both == dates1 \cap dates2
    IN  both \ {d \in both : \A e \in both : DateLE(d, e)}

\* run.py:243
CommonDates(dates1, dates2) == dates1 \cap dates2

\* run.py:246-253: the two series on the common dates, row by row
Frame(dates, prices1, prices2) ==
    [d \in dates |-> <<prices1[d], prices2[d]>>]

\* a mutant: the cell of an instrument with itself is left as created
DiagonalUnset == NaN

\* run.py:240
Diagonal == One

\* a mutant: 0.0 stands for "no common dates"
NoCommonDatesZero == Zero

\* run.py:262: None stored in a cell of a float DataFrame is NaN
NoCommonDates == NaN

\* run.py:239-262 for one ordered pair of labels
Cell(label1, label2) ==
    IF label1 = label2 THEN Diagonal
    ELSE LET common_dates == CommonDates(date_sets[label1], date_sets[label2])
         IN  IF common_dates # {}
             THEN Corr(Resample(Frame(common_dates, closing_prices[label1],
                                      closing_prices[label2]), frequency))
             ELSE NoCommonDates

\* the ordered pairs of distinct labels at which run.py:243 finds a label
\* without an entry in date_sets, by their position in the two loops
KeyErrors ==
    {p \in (1..Len(labels)) \X (1..Len(labels)) :
        /\ labels[p[1]] # labels[p[2]]
        /\ (labels[p[1]] \notin DOMAIN date_sets \/ labels[p[2]] \notin DOMAIN date_sets)}

FirstKeyError ==
    CHOOSE p \in KeyErrors :
        \A q \in KeyErrors : p[1] < q[1] \/ (p[1] = q[1] /\ p[2] <= q[2])

\* the tables of the checked calls: every rate is 0, so that each adjusted
\* close has a rational value
CallTables == UNION {[S -> {0}] : S \in SUBSET (2022..2023)}

Idle == "idle"

Init ==
    /\ pc = "fetch"
    /\ frequency \in Frequencies
    /\ inflation_data \in {None} \cup {Some(rates) : rates \in CallTables}
    /\ todo = TickerOrder
    /\ fetched = <<>>
    /\ history = <<>>
    /\ date_sets = <<>>
    /\ closing_prices = <<>>
    /\ pairwise_correlation = None
    /\ frames = <<>>
    /\ error = None
    /\ ipc = Idle
    /\ table = None
    /\ start_date = None
    /\ inflation_factors = None
    /\ raised = None
    /\ asset_data_in = None
    /\ asset_data = None
    /\ adjusted_data = None

\* one iteration of the loop of run.py:210-231
FetchTicker ==
    /\ pc = "fetch"
    /\ todo # <<>>
    /\ \E source \in Sources :
        LET label == ticker_label_map[Head(todo)]
            got == get_asset_stats(source)
            h == got.value
            pre == precompute_inflation_factors(inflation_data.value, EarliestDate(h))
            adjusted == IF inflation_data # None
                        THEN adjust_for_inflation(h, pre.cumulative_factors).returned
                        ELSE h
        IN  /\ fetched' = (label :> got) @@ fetched
            /\ todo' = Tail(todo)
            /\ IF ~Truthy(got)
               THEN UNCHANGED <<pc, error, history, date_sets, closing_prices>>
               ELSE IF inflation_data # None /\ pre.raised # None
               THEN /\ pc' = "raised"
                    /\ error' = pre.raised
                    /\ UNCHANGED <<history, date_sets, closing_prices>>
               ELSE /\ history' = (label :> adjusted) @@ history
                    /\ date_sets' = (label :> Dates(adjusted)) @@ date_sets
                    /\ closing_prices' = (label :> PricesByDate(adjusted)) @@ closing_prices
                    /\ UNCHANGED <<pc, error>>
    /\ UNCHANGED <<frequency, inflation_data, pairwise_correlation, frames>>
    /\ UNCHANGED inflVars

\* run.py:233-264
Correlate ==
    /\ pc = "fetch"
    /\ todo = <<>>
    /\ IF KeyErrors # {}
       THEN /\ pc' = "raised"
            /\ error' = Some(<<"KeyError",
                               IF labels[FirstKeyError[1]] \notin DOMAIN date_sets
                               THEN labels[FirstKeyError[1]]
                               ELSE labels[FirstKeyError[2]]>>)
            /\ UNCHANGED <<pairwise_correlation, frames>>
       ELSE /\ pc' = "done"
            /\ pairwise_correlation' =
                   Some([p \in LabelSet \X LabelSet |-> Cell(p[1], p[2])])
            /\ frames' =
                   [p \in {q \in LabelSet \X LabelSet :
                             /\ q[1] # q[2]
                             /\ CommonDates(date_sets[q[1]], date_sets[q[2]]) # {}} |->
                       Frame(CommonDates(date_sets[p[1]], date_sets[p[2]]),
                             closing_prices[p[1]], closing_prices[p[2]])]
            /\ UNCHANGED error
    /\ UNCHANGED <<frequency, inflation_data, todo, fetched, history, date_sets,
                   closing_prices>>
    /\ UNCHANGED inflVars

Next == FetchTicker \/ Correlate

Spec == Init /\ [][Next]_vars

(***************************************************************************)
(* A deflation run: precompute_inflation_factors on a table and a start    *)
(* date, then adjust_for_inflation of a history with the curve it returned *)
(* (run.py:295-296).                                                       *)
(***************************************************************************)
Tables == UNION {[S -> Rates] : S \in SUBSET TableYears}

\* the tables over the years around a turn of a century
CenturyTables ==
    UNION {UNION {[S -> Rates] : S \in SUBSET span} : span \in CenturySpans}

InitDeflation ==
    /\ ipc = "start"
    /\ table \in Tables \cup CenturyTables
    /\ start_date \in CandidateDates \cup CenturyStartDates
    /\ inflation_factors = None
    /\ raised = None
    /\ asset_data_in = None
    /\ asset_data = None
    /\ adjusted_data = None
    /\ pc = Idle
    /\ frequency = Idle
    /\ inflation_data = None
    /\ todo = <<>>
    /\ fetched = <<>>
    /\ history = <<>>
    /\ date_sets = <<>>
    /\ closing_prices = <<>>
    /\ pairwise_correlation = None
    /\ frames = <<>>
    /\ error = None

Precompute ==
    /\ ipc = "start"
    /\ LET r == precompute_inflation_factors(table, start_date)
       IN  /\ inflation_factors' =
                  IF r.raised # None THEN None ELSE Some(r.cumulative_factors)
           /\ raised' = r.raised
           /\ ipc' = IF r.raised # None THEN "raised" ELSE "precomputed"
    /\ UNCHANGED <<table, start_date, asset_data_in, asset_data, adjusted_data>>
    /\ UNCHANGED corrVars

Adjust ==
    /\ ipc = "precomputed"
    /\ \E data \in Histories(CandidateDates) :
        LET r == adjust_for_inflation(data, inflation_factors.value)
        IN  /\ asset_data_in' = Some(data)
            /\ asset_data' = Some(r.asset_data)
            /\ adjusted_data' = Some(r.returned)
    /\ ipc' = "adjusted"
    /\ UNCHANGED <<table, start_date, inflation_factors, raised>>
    /\ UNCHANGED corrVars

NextDeflation == Precompute \/ Adjust

SpecDeflation == InitDeflation /\ [][NextDeflation]_vars

(***************************************************************************)
(* Properties of calculate_pairwise_correlation, checked under Spec.       *)
(***************************************************************************)
Returned == pc = "done"

Matrix == pairwise_correlation.value

HasData(label) == label \in DOMAIN history /\ history[label] # <<>>

\* the close that the history of `label` holds for `date`
PriceOn(label, date) ==
    PriceOf(history[label][CHOOSE i \in 1..Len(history[label]) :
                              DateOf(history[label][i].timestamp) = date])

Failed(label) == label \in DOMAIN fetched /\ ~Truthy(fetched[label])

\* C1: when get_asset_stats fails for a ticker, the call still completes
\* without raising, the failed instrument is absent from the matrix and the
\* cells of all other pairs are there.
C1_FailedFetchIsSkipped ==
    \A label \in LabelSet :
        Failed(label) =>
            /\ ~(pc = "raised" /\ error.value[1] = "KeyError")
            /\ Returned =>
                 DOMAIN Matrix = (LabelSet \ {label}) \X (LabelSet \ {label})

\* C2: in the returned matrix the cell (label, label) of every instrument
\* with at least one data point is exactly 1.0, whatever the frequency.
C2_DiagonalIsOne ==
    Returned => \A label \in LabelSet :
                    HasData(label) => Matrix[<<label, label>>] = One

\* C2's case: a weekly matrix was returned for an instrument whose prices
\* are all equal, so that a computed self-correlation would be undefined
C2_Witness ==
    /\ Returned
    /\ frequency = "W"
    /\ \E label \in LabelSet :
        /\ Cardinality(DOMAIN closing_prices[label]) >= 2
        /\ \A d, e \in DOMAIN closing_prices[label] :
              closing_prices[label][d] = closing_prices[label][e]
        /\ Matrix[<<label, label>>] = One

\* C3: the returned matrix is symmetric, undefined cells included.
C3_Symmetric ==
    Returned => \A a, b \in LabelSet : Matrix[<<a, b>>] = Matrix[<<b, a>>]

\* C3's case: a pair whose coefficient is a number other than 1, -1 and 0,
\* computed from two columns of different variance
C3_Witness ==
    /\ Returned
    /\ \E a, b \in LabelSet :
        /\ a # b
        /\ Matrix[<<a, b>>] # NaN
        /\ Matrix[<<a, b>>].sq \notin {<<1, 1>>, <<0, 1>>}
        /\ Matrix[<<b, a>>] = Matrix[<<a, b>>]

\* C4: two distinct instruments without a common date get NaN, the
\* undefined value, in their cell, never 0.0 or another number, and the
\* call does not raise on them: a KeyError needs a label without dates.
C4_NoCommonDatesIsUndefined ==
    /\ Returned =>
         \A a, b \in LabelSet :
             (a # b /\ Dates(history[a]) \cap Dates(history[b]) = {})
                 => Matrix[<<a, b>>] = NaN
    /\ (pc = "raised" /\ error.value[1] = "KeyError") =>
         \E label \in LabelSet : label \notin DOMAIN history

\* C4's case: both instruments have data, on disjoint dates
C4_Witness ==
    /\ Returned
    /\ \E a, b \in LabelSet :
        /\ a # b
        /\ HasData(a) /\ HasData(b)
        /\ Dates(history[a]) \cap Dates(history[b]) = {}
        /\ Matrix[<<a, b>>] = NaN

\* C5: for distinct instruments A and B the rows that enter the correlation
\* are exactly the dates both series have, each with that date's price of A
\* and of B, and the cell is the coefficient of those rows.
C5_ExactlyTheCommonDates ==
    Returned =>
        \A a, b \in LabelSet :
            a # b =>
                LET both == Dates(history[a]) \cap Dates(history[b])
                IN  IF both = {}
                    THEN <<a, b>> \notin DOMAIN frames
                    ELSE /\ <<a, b>> \in DOMAIN frames
                         /\ DOMAIN frames[<<a, b>>] = both
                         /\ \A d \in both :
                               frames[<<a, b>>][d] = <<PriceOn(a, d), PriceOn(b, d)>>
                         /\ Matrix[<<a, b>>] =
                               Corr(Resample(frames[<<a, b>>], frequency))

\* C5's case: each series has a date the other lacks, and they share one
C5_Witness ==
    /\ Returned
    /\ \E a, b \in LabelSet :
        /\ a # b
        /\ Dates(history[a]) \ Dates(history[b]) # {}
        /\ Dates(history[b]) \ Dates(history[a]) # {}
        /\ <<a, b>> \in DOMAIN frames
        /\ DOMAIN frames[<<a, b>>] = Dates(history[a]) \cap Dates(history[b])

\* a column of a frame is constant
ConstantColumn(df, k) == \A d, e \in DOMAIN df : df[d][k] = df[e][k]

\* C9: for distinct instruments with common dates of which one has constant
\* prices on those dates, the cell is an UndefinedCorrelation outcome that
\* can be told from a computed number: neither NaN nor 0.0 nor any number.
C9_ZeroVarianceIsSignalled ==
    Returned =>
        \A p \in DOMAIN frames :
            (ConstantColumn(frames[p], 1) \/ ConstantColumn(frames[p], 2))
                => /\ Matrix[p] # NaN
                   /\ Matrix[p] # Zero
                   /\ "sq" \notin DOMAIN Matrix[p]

\* the record that the history of `label` holds for `date`
RecordOn(label, date) ==
    history[label][CHOOSE i \in 1..Len(history[label]) :
                      DateOf(history[label][i].timestamp) = date]

\* C12: when the call is given inflation data, every price in a row that
\* enters the cell of two distinct instruments is the inflation-adjusted
\* close of its record: the record has one, and the row holds it and not
\* the nominal close.
C12_OnlyAdjustedPricesEnter ==
    (Returned /\ inflation_data # None) =>
        \A p \in DOMAIN frames :
            \A d \in DOMAIN frames[p] :
                \A k \in 1..2 :
                    /\ AdjustedKey \in DOMAIN RecordOn(p[k], d).data
                    /\ frames[p][d][k] = RecordOn(p[k], d).data[AdjustedKey]

(***************************************************************************)
(* Properties of precompute_inflation_factors and adjust_for_inflation,    *)
(* checked under SpecDeflation.                                            *)
(***************************************************************************)
Called == ipc \in {"raised", "precomputed", "adjusted"}

Curve == inflation_factors.value

RECURSIVE Sum(_, _)
\* the sum of f[x] over x in S
Sum(f, S) ==
    IF S = {} THEN 0
    ELSE LET x == CHOOSE x \in S : TRUE
         IN  f[x] + Sum(f, S \ {x})

\* the number of calendar days of `year` from `from` through `to`
DaysWithin(year, from, to) ==
    LET first == IF from[1] = year THEN from ELSE <<year, 1>>
        last == IF to[1] = year THEN to ELSE <<year, days_in_year(year)>>
    IN  IF year < from[1] \/ year > to[1] THEN 0
        ELSE Ordinal(last) - Ordinal(first) + 1

\* C6: precompute_inflation_factors fails with a missing-year error, and
\* returns no curve, whenever a year of [start_date.year, END_DATE] is not
\* in the rate table, years after the table's last year included.
C6_AnyMissingYearRaises ==
    Called =>
        ((\E year \in start_date[1]..END_DATE : year \notin DOMAIN table)
            => (raised # None /\ inflation_factors = None))

\* C6 as amended: for a table that lists a year, the call fails with the
\* missing-year error, naming the first missing year and returning no
\* curve, exactly when a year of [start_date.year, min(END_DATE, last year
\* of the table)] is not in the table; a year after the table's last year
\* raises nothing, and the curve then ends with that last year.
C6_MissingYearUpToLastTableYearRaises ==
    (Called /\ DOMAIN table # {}) =>
        LET last == Min(END_DATE, MaxOf(DOMAIN table))
            gaps == {year \in start_date[1]..last : year \notin DOMAIN table}
        IN  IF gaps # {}
            THEN /\ raised = Some(<<"ValueError", "year not found", MinOf(gaps)>>)
                 /\ inflation_factors = None
            ELSE /\ raised = None
                 /\ inflation_factors # None
                 /\ \A date \in DOMAIN Curve : date[1] <= last
                 /\ start_date[1] <= last =>
                        <<last, days_in_year(last)>> \in DOMAIN Curve

\* C6's case: the start year is listed, the next year is not, a later one is
C6_Witness ==
    /\ ipc = "raised"
    /\ start_date[1] \in DOMAIN table
    /\ raised.value[3] > start_date[1]
    /\ \E year \in DOMAIN table : year > raised.value[3] /\ year <= END_DATE
    /\ inflation_factors = None

\* C7: adjust_for_inflation leaves the records of the asset_data it was
\* given with the keys and values they had.
C7_InputNotMutated ==
    ipc = "adjusted" => asset_data = asset_data_in

\* C8: a record whose date is not in a non-empty curve is either emitted
\* with its nominal price unchanged or makes the whole call fail; a series
\* that is returned has one record for every input record.
C8_AbsentDateFollowsAPolicy ==
    (/\ ipc = "adjusted"
     /\ DOMAIN Curve # {}
     /\ \E i \in 1..Len(asset_data_in.value) :
           DateOf(asset_data_in.value[i].timestamp) \notin DOMAIN Curve)
        => \/ adjusted_data = None
           \/ /\ Len(adjusted_data.value) = Len(asset_data_in.value)
              /\ \A i \in 1..Len(asset_data_in.value) :
                    DateOf(asset_data_in.value[i].timestamp) \notin DOMAIN Curve
                        => adjusted_data.value[i] = asset_data_in.value[i]

\* C10: the returned curve has factor exactly 1.0 on start_date, the factor
\* of the k-th day after start_date is the product of k daily factors, and
\* no date before start_date is in the curve.
C10_FactorIsOneOnStartDate ==
    ipc = "precomputed" =>
        \A date \in DOMAIN Curve :
            /\ DateLE(start_date, date)
            /\ BagCardinality(Curve[date]) = Ordinal(date) - Ordinal(start_date)

\* C10 as amended: the curve has the daily factor of start_date's year on
\* start_date, and on the k-th calendar day after start_date the product of
\* k + 1 daily factors: one for start_date and one for each later day
\* through that day, each the daily factor of the year the day falls in; no
\* date before start_date is in the curve.
C10_FactorCompoundsFromStartDate ==
    ipc = "precomputed" =>
        \A date \in DOMAIN Curve :
            /\ DateLE(start_date, date)
            /\ BagCardinality(Curve[date]) =
                   Ordinal(date) - Ordinal(start_date) + 1
            /\ \A f \in BagToSet(Curve[date]) \cup
                        {daily_inflation_factor(table, y) : y \in start_date[1]..date[1]} :
                   CopiesIn(f, Curve[date]) =
                       Sum([y \in start_date[1]..date[1] |->
                               IF daily_inflation_factor(table, y) = f
                               THEN DaysWithin(y, start_date, date) ELSE 0],
                           start_date[1]..date[1])

\* C10's case: a curve from the last day of a year into a year with another
\* rate and on into a leap year
C10_Witness ==
    /\ ipc = "precomputed"
    /\ start_date = <<2022, 365>>
    /\ {2022, 2023} \subseteq DOMAIN table
    /\ table[2022] # table[2023]
    /\ Curve[start_date] = SetToBag({daily_inflation_factor(table, 2022)})
    /\ <<END_DATE, 366>> \in DOMAIN Curve
    /\ BagCardinality(Curve[<<END_DATE, 366>>]) = 732

\* the Gregorian rule: a year divisible by 4 is a leap year, unless it is
\* divisible by 100 and not by 400
GregorianLeap(year) ==
    year % 400 = 0 \/ (year % 4 = 0 /\ year % 100 # 0)

\* the years a returned curve covers from 1 January on: those from the year
\* of start_date, or the next one if start_date is a later day, through the
\* last year of the table, END_DATE at most
FullYears ==
    {year \in start_date[1]..END_DATE :
        /\ DateLE(start_date, <<year, 1>>)
        /\ \E listed \in DOMAIN table : year <= listed}

\* C11: for every year y the curve covers in full, the curve has every
\* calendar day of y, 366 of them in a Gregorian leap year (100/400 rule
\* included) and 365 otherwise, 29 February and 31 December among them;
\* each day adds one daily factor (1 + rate_y/100) ** (1/n) with n that
\* number of days, so that over the year the cumulative factor grows by n
\* such factors, which is the annual factor 1 + rate_y/100.
C11_FullYearCompoundsToAnnualRate ==
    ipc = "precomputed" =>
        \A year \in FullYears :
            LET n == IF GregorianLeap(year) THEN 366 ELSE 365
                before == IF start_date = <<year, 1>> THEN EmptyBag
                          ELSE Curve[<<year - 1,
                                       IF GregorianLeap(year - 1) THEN 366 ELSE 365>>]
            IN  /\ \A day \in 1..n : <<year, day>> \in DOMAIN Curve
                /\ <<year, n + 1>> \notin DOMAIN Curve
                /\ \A day \in 1..n :
                      Curve[<<year, day>>] = before (+) (<<table[year], n>> :> day)

\* C11's case: a curve from 1999-12-31 over the whole of 2000, a leap year
\* by the 400 rule whose rate differs from that of 1999: 29 February (day
\* 60) and 31 December (day 366) are in it, and the year adds 366 factors
C11_Witness ==
    /\ ipc = "precomputed"
    /\ start_date = <<1999, 365>>
    /\ {1999, 2000} \subseteq DOMAIN table
    /\ table[1999] # table[2000]
    /\ 2000 \in FullYears
    /\ <<2000, 60>> \in DOMAIN Curve
    /\ <<2000, 366>> \in DOMAIN Curve
    /\ CopiesIn(<<table[2000], 366>>, Curve[<<2000, 366>>]) = 366
    /\ BagCardinality(Curve[<<2000, 366>>]) = 367

====
